---- MODULE Spec2Model ----
(***************************************************************************)
(* Model of donut.js: the Plotter (perspective projection, depth buffer,   *)
(* flush) and the Donut animation loop that drives it.                     *)
(*                                                                         *)
(* Numbers.  Coordinates of points are integers; a JavaScript number that  *)
(* the code can produce and an integer cannot express is kept exactly:     *)
(*   - a projected pixel is a record [k, v], k one of "num", "inf", "nan"  *)
(*     (division by a zero z gives +-Infinity or NaN);                     *)
(*   - bounds.min / bounds.max and the flat index idx are stored doubled   *)
(*     (size/2 is a half-integer for odd size), the index NaN is NaNKey;   *)
(*   - timestamps are in 1/100 ms, the angles a and b in 1e-6 rad;         *)
(*   - the light direction (0,-1,1)/sqrt(2) is handled by comparing        *)
(*     squares (LeSqrt2), a unit normal is an integer vector of length     *)
(*     NormalLen.                                                          *)
(* The sine / cosine sweep of Donut.draw is not computable here: each      *)
(* sample of the sweep is drawn from SweepPoints x UnitNormals, a superset *)
(* of the pairs the rotation can produce on this lattice.                  *)
(***************************************************************************)
EXTENDS Integers, Sequences, FiniteSets, TLC

VARIABLES
    size,       \* Plotter.size  (configured size + 1)
    bounds,     \* Plotter.bounds, doubled: [min |-> -size, max |-> size]
    distance,   \* Plotter.distance
    ncolors,    \* Plotter.palette.length
    zbuf,       \* Plotter.zbuf : sparse array, key -> z
    points,     \* Plotter.points : sparse array, key -> [x, y, c]
    cmds,       \* fillRect calls issued on ctx since the latest clearRect
    a, b,       \* Donut.a, Donut.b
    lastTs,     \* Donut.lastTs
    pc,         \* position of the frame callback
    requested,  \* a requestAnimationFrame callback is pending
    phi, t,     \* loop counters of the sweep in Donut.draw
    ticks,      \* number of ticks delivered
    clears,     \* clearRect calls since the last tick delivery
    renders,    \* Plotter.render calls since the last tick delivery
    nplots,     \* Plotter.plot calls so far
    cands,      \* samples that reached the depth test since the last reset
    flushed,    \* Plotter.points as it was when the latest render began
    flushedCands, \* cands as it was when the latest render began
    last        \* the latest Plotter call: [op, by, point, color, stage, wrote]

vars == <<size, bounds, distance, ncolors, zbuf, points, cmds, a, b, lastTs, pc,
          requested, phi, t, ticks, clears, renders, nplots, cands, flushed,
          flushedCands, last>>

plotterCfg == <<size, bounds, distance, ncolors>>
donutVars == <<a, b, lastTs, pc, requested, phi, t, ticks, clears, renders>>

----------------------------------------------------------------------------
(* Bounds of the model *)

MaxPlots == 2       \* direct Plotter.plot calls
MaxTicks == 2       \* ticks delivered
PhiSteps == 2       \* iterations of the phi loop

(* Program constants *)

Scale == 8          \* scale = 8
FPS == 60           \* this.FPS = 60
NormalLen == 3      \* length of a unit normal, in lattice units
CenterZ == 5        \* CENTER = (0, 0, 5)
R1 == 1
R2 == 2

Null == -1          \* lastTs = null
NaNKey == -1        \* the array key NaN
Empty == <<>>       \* new Array(n): no element is set

Sizes == {1, 2}                 \* configured size
Distances == {1}                \* configured distance
PaletteSizes == {2, 3}          \* configured colors
TimeStamps == {0, 1667, 3334}   \* 0 ms, 16.67 ms, 33.34 ms

----------------------------------------------------------------------------
(* Inputs *)

\* points handed to Plotter.plot by a direct caller
CallPoints == [x : {-2, 0, 1, 2}, y : {-2, 0, 1}, z : {0, 1, 2}]

\* color indices handed to Plotter.plot by a direct caller (ncolors is 2)
CallColors == -1 .. 2

Dot(u, v) == u.x * v.x + u.y * v.y + u.z * v.z

\* the normals of the sweep: integer vectors of length NormalLen
UnitNormals ==
    {n \in [x : -NormalLen .. NormalLen, y : -NormalLen .. NormalLen,
            z : -NormalLen .. NormalLen] : Dot(n, n) = NormalLen * NormalLen}

\* points of the torus surface: CENTER plus an offset whose length lies in
\* [R2 - R1, R2 + R1]
SweepPoints ==
    {p \in [x : {0, 2}, y : {0}, z : {2, 3, 4}] :
        LET d == [x |-> p.x, y |-> p.y, z |-> p.z - CenterZ]
        IN  /\ Dot(d, d) >= (R2 - R1) * (R2 - R1)
            /\ Dot(d, d) <= (R2 + R1) * (R2 + R1)}

----------------------------------------------------------------------------
(* Arithmetic *)

Max(x, y) == IF x >= y THEN x ELSE y

\* Math.round(n / d) for d # 0: the nearest integer, a half rounds up
RoundDiv(n, d) ==
    IF d > 0 THEN (2 * n + d) \div (2 * d) ELSE (-2 * n - d) \div (-2 * d)

Num(v) == [k |-> "num", v |-> v]
Inf(sign) == [k |-> "inf", v |-> sign]
NaN == [k |-> "nan", v |-> 0]

\* Math.round(this.distance * c / z)
Project(c, z) ==
    IF z # 0 THEN Num(RoundDiv(distance * c, z))
    ELSE IF distance * c > 0 THEN Inf(1)
    ELSE IF distance * c < 0 THEN Inf(-1)
    ELSE NaN

\* A * sqrt(s) <= B, for integers A, B and s >= 0
LeSqrt(A, s, B) ==
    IF A <= 0 /\ B >= 0 THEN TRUE
    ELSE IF A > 0 /\ B < 0 THEN FALSE
    ELSE IF A >= 0 THEN A * A * s <= B * B
    ELSE A * A * s >= B * B

\* Math.round(p / (q * sqrt(s))) for q > 0, s > 0
RoundSqrt(p, q, s) ==
    LET lim == (IF p >= 0 THEN p ELSE -p) + 1
    IN  CHOOSE m \in -lim .. lim :
            /\ LeSqrt((2 * m - 1) * q, s, 2 * p)
            /\ ~LeSqrt((2 * m + 1) * q, s, 2 * p)

----------------------------------------------------------------------------
(* Plotter *)

\* mutant: the upper comparison is off by one (color > length)
ColorRejectedOffByOne(color) == color < 0 \/ color > ncolors

\* color < 0 || color >= this.palette.length
ColorRejected(color) == color < 0 \/ color >= ncolors

\* mutant: the comparison with bounds.max is missing
OutOfBoundsNoMax(p) ==
    CASE p.k = "num" -> 2 * p.v < bounds.min
      [] p.k = "inf" -> p.v < 0
      [] p.k = "nan" -> FALSE

\* xp < this.bounds.min || xp > this.bounds.max  (both sides doubled)
OutOfBounds(p) ==
    CASE p.k = "num" -> 2 * p.v < bounds.min \/ 2 * p.v > bounds.max
      [] p.k = "inf" -> TRUE
      [] p.k = "nan" -> FALSE

\* mutant: the row stride is the configured size, not this.size
IndexNarrowStride(xp, yp) ==
    IF xp.k = "nan" \/ yp.k = "nan" THEN NaNKey
    ELSE (2 * yp.v - bounds.min) * (size - 1) + (2 * xp.v - bounds.min)

\* (yp - this.bounds.min) * this.size + (xp - this.bounds.min), doubled
Index(xp, yp) ==
    IF xp.k = "nan" \/ yp.k = "nan" THEN NaNKey
    ELSE (2 * yp.v - bounds.min) * size + (2 * xp.v - bounds.min)

\* mutant: the comparison is reversed, the farther sample wins
DepthTestReversed(zb, idx, z) == idx \in DOMAIN zb /\ zb[idx] >= z

\* mutant: strict comparison, an equal depth is written again
DepthTestStrict(zb, idx, z) == idx \in DOMAIN zb /\ zb[idx] < z

\* this.zbuf[idx] <= point.z  (undefined <= z is false)
DepthTest(zb, idx, z) == idx \in DOMAIN zb /\ zb[idx] <= z

\* Plotter.plot on the buffers zb, pts; stage names the return it left by
Plot(zb, pts, point, color) ==
    LET xp == Project(point.x, point.z)
        yp == Project(point.y, point.z)
        idx == Index(xp, yp)
        same(stage, px, py) ==
            [zbuf |-> zb, points |-> pts, stage |-> stage, x |-> px, y |-> py]
    IN  IF ColorRejected(color) THEN same("color", NaN, NaN)
        ELSE IF OutOfBounds(xp) THEN same("xbound", xp, NaN)
        ELSE IF OutOfBounds(yp) THEN same("ybound", xp, yp)
        ELSE IF DepthTest(zb, idx, point.z) THEN same("depth", xp, yp)
        ELSE [zbuf |-> (idx :> point.z) @@ zb,
              points |-> (idx :> [x |-> xp, y |-> yp, c |-> color]) @@ pts,
              stage |-> "write", x |-> xp, y |-> yp]

\* makeColor(level), level = num / den: the three percentages over 4 * den
makeColor(num, den) ==
    [r |-> 4 * Max(num, 20 * den), g |-> 2 * Max(num, 20 * den), b |-> num,
     den |-> 4 * den]

\* makePalette(size)
makePalette(n) == [i \in 0 .. n - 1 |-> makeColor(i * 100, n - 1)]

\* a key that Array.prototype.forEach visits: a non-negative integer
ArrayIndex(key) == key # NaNKey /\ key >= 0 /\ key % 2 = 0

RECURSIVE Sorted(_)
Sorted(S) ==
    IF S = {} THEN <<>>
    ELSE LET m == CHOOSE x \in S : \A y \in S : x <= y
         IN  <<m>> \o Sorted(S \ {m})

\* mutant: every bucket is one shared array (new Array(n).fill([]))
BucketShared(pts, c) ==
    LET keys == Sorted({key \in DOMAIN pts : ArrayIndex(key)})
    IN  [i \in 1 .. Len(keys) |-> pts[keys[i]]]

\* colors[c] after this.points.forEach(p => colors[p.c].push(p))
Bucket(pts, c) ==
    LET keys == Sorted({key \in DOMAIN pts : ArrayIndex(key) /\ pts[key].c = c})
    IN  [i \in 1 .. Len(keys) |-> pts[keys[i]]]

\* mutant: the screen x is computed from p.y
FillRectFromY(c, p) ==
    [fillStyle |-> makePalette(ncolors)[c],
     x |-> Scale * (2 * p.y.v - 1), y |-> Scale * (1 - 2 * p.y.v),
     w |-> 2 * Scale, h |-> 2 * Scale]

\* ctx.fillStyle = palette[c]; ctx.fillRect(scale * (p.x - .5),
\* scale * (.5 - p.y), scale, scale)  (lengths doubled)
FillRect(c, p) ==
    [fillStyle |-> makePalette(ncolors)[c],
     x |-> Scale * (2 * p.x.v - 1), y |-> Scale * (1 - 2 * p.y.v),
     w |-> 2 * Scale, h |-> 2 * Scale]

\* the fillRect calls of colors[c]
BucketCmds(pts, c) ==
    LET ps == Bucket(pts, c) IN [i \in 1 .. Len(ps) |-> FillRect(c, ps[i])]

RECURSIVE RenderFrom(_, _)
RenderFrom(pts, c) ==
    IF c >= ncolors THEN <<>> ELSE BucketCmds(pts, c) \o RenderFrom(pts, c + 1)

\* the fillRect calls of Plotter.render, in order
RenderCmds(pts) == RenderFrom(pts, 0)

----------------------------------------------------------------------------
(* Donut *)

LIGHT == [x |-> 0, y |-> -1, z |-> 1]   \* before normalize()

\* mutant: LIGHT is used without normalize()
LevelOfRawLight(normal, maxColor) ==
    Max(0, RoundSqrt(-Dot(LIGHT, normal) * maxColor, NormalLen, 1))

\* Math.max(0, Math.round(-this.LIGHT.dot(normal) * maxColor))
LevelOf(normal, maxColor) ==
    Max(0, RoundSqrt(-Dot(LIGHT, normal) * maxColor, NormalLen, Dot(LIGHT, LIGHT)))

Level(normal) == LevelOf(normal, ncolors - 1)

\* ts - (this.lastTs || ts): null and 0 are both falsy
Elapsed(ts) == ts - (IF lastTs = Null \/ lastTs = 0 THEN ts ELSE lastTs)

\* 0.07 * dt and 0.03 * dt with dt = elapsed * FPS / 1000, in 1e-6 rad
StepA(elapsed) == (7 * elapsed * FPS) \div 10
StepB(elapsed) == (3 * elapsed * FPS) \div 10

\* t loop: T_INC = 2 * PHI_INC, half the iterations of the phi loop
TSteps == PhiSteps \div 2

----------------------------------------------------------------------------
(* Operations *)

NoCall ==
    [op |-> "none", by |-> "none", point |-> [x |-> 0, y |-> 0, z |-> 0],
     color |-> 0, stage |-> "none"]

\* new Plotter(size, scale, distance, palette): constructor and reset()
NewPlotter(cfgSize, cfgDistance, cfgColors) ==
    /\ size = cfgSize + 1
    /\ bounds = [min |-> -cfgSize, max |-> cfgSize]
    /\ distance = cfgDistance
    /\ ncolors = cfgColors
    /\ zbuf = Empty
    /\ points = Empty
    /\ cmds = <<>>
    /\ nplots = 0
    /\ cands = {}
    /\ flushed = Empty
    /\ flushedCands = {}
    /\ last = NoCall

\* this.plotter.plot(point, color), called by `by`
DoPlot(by, point, color) ==
    LET r == Plot(zbuf, points, point, color)
    IN  /\ zbuf' = r.zbuf
        /\ points' = r.points
        /\ nplots' = nplots + 1
        /\ cands' = IF r.stage \in {"depth", "write"}
                    THEN cands \cup {[x |-> r.x, y |-> r.y, z |-> point.z, c |-> color]}
                    ELSE cands
        /\ last' = [op |-> "plot", by |-> by, point |-> point, color |-> color,
                    stage |-> r.stage]
        /\ UNCHANGED <<plotterCfg, cmds, flushed, flushedCands>>

\* this.plotter.render(ctx), reset() included
DoRender ==
    /\ cmds' = cmds \o RenderCmds(points)
    /\ flushed' = points
    /\ flushedCands' = cands
    /\ zbuf' = Empty
    /\ points' = Empty
    /\ nplots' = nplots
    /\ cands' = {}
    /\ last' = [NoCall EXCEPT !.op = "render"]
    /\ UNCHANGED plotterCfg

\* mutant: the next frame is requested before update runs
TickRequestsFirst(ts) ==
    /\ pc = "waiting"
    /\ requested
    /\ ticks < MaxTicks
    /\ lastTs = Null \/ ts >= lastTs
    /\ requested' = TRUE
    /\ lastTs' = ts
    /\ a' = a + StepA(Elapsed(ts))
    /\ b' = b + StepB(Elapsed(ts))
    /\ ticks' = ticks + 1
    /\ clears' = 0
    /\ renders' = 0
    /\ pc' = "draw"
    /\ UNCHANGED <<plotterCfg, zbuf, points, cmds, nplots, cands, flushed,
                   flushedCands, last, phi, t>>

\* the frame callback runs: Donut.update up to the call of draw()
Tick(ts) ==
    /\ pc = "waiting"
    /\ requested
    /\ ticks < MaxTicks
    /\ lastTs = Null \/ ts >= lastTs
    /\ requested' = FALSE
    /\ lastTs' = ts
    /\ a' = a + StepA(Elapsed(ts))
    /\ b' = b + StepB(Elapsed(ts))
    /\ ticks' = ticks + 1
    /\ clears' = 0
    /\ renders' = 0
    /\ pc' = "draw"
    /\ UNCHANGED <<plotterCfg, zbuf, points, cmds, nplots, cands, flushed,
                   flushedCands, last, phi, t>>

\* Donut.draw: ctx.clearRect(...), the loops start
ClearRect ==
    /\ pc = "draw"
    /\ clears' = clears + 1
    /\ phi' = 0
    /\ t' = 0
    /\ pc' = IF TSteps > 0 /\ PhiSteps > 0 THEN "sweep" ELSE "flush"
    /\ cmds' = <<>>
    /\ flushed' = Empty
    /\ flushedCands' = {}
    /\ UNCHANGED <<plotterCfg, zbuf, points, nplots, cands, last,
                   a, b, lastTs, requested, ticks, renders>>

\* Donut.draw: one iteration of the inner loop
Sample(point, normal) ==
    /\ pc = "sweep"
    /\ DoPlot("sweep", point, Level(normal))
    /\ t' = IF t + 1 < TSteps THEN t + 1 ELSE 0
    /\ phi' = IF t + 1 < TSteps THEN phi ELSE phi + 1
    /\ pc' = IF t + 1 < TSteps \/ phi + 1 < PhiSteps THEN "sweep" ELSE "flush"
    /\ UNCHANGED <<a, b, lastTs, requested, ticks, clears, renders>>

\* Donut.draw: this.plotter.render(this.ctx) after the loops
Flush ==
    /\ pc = "flush"
    /\ DoRender
    /\ renders' = renders + 1
    /\ pc' = "request"
    /\ UNCHANGED <<a, b, lastTs, requested, ticks, clears, phi, t>>

\* frame: window.requestAnimationFrame(frame) after donut.update(ts)
RequestFrame ==
    /\ pc = "request"
    /\ requested' = TRUE
    /\ pc' = "waiting"
    /\ UNCHANGED <<plotterCfg, zbuf, points, cmds, nplots, cands, flushed,
                   flushedCands, last, a, b, lastTs, ticks, clears, renders, phi, t>>

\* a direct caller of the Plotter: plot(point, color)
PlotCall(point, color) ==
    /\ nplots < MaxPlots
    /\ DoPlot("call", point, color)
    /\ UNCHANGED donutVars

\* a direct caller of the Plotter: render(ctx)
RenderCall ==
    /\ DoRender
    /\ UNCHANGED donutVars

\* new Donut(canvas, {size, distance, colors})
NewDonut ==
    /\ lastTs = Null
    /\ a = 1000000
    /\ b = 1000000
    /\ phi = 0
    /\ t = 0
    /\ ticks = 0
    /\ clears = 0
    /\ renders = 0

\* window.onload: the Donut is built and the first frame is requested
Init ==
    /\ \E s \in Sizes, d \in Distances, n \in PaletteSizes : NewPlotter(s, d, n)
    /\ NewDonut
    /\ pc = "waiting"
    /\ requested = TRUE

Next ==
    \/ \E ts \in TimeStamps : Tick(ts)
    \/ ClearRect
    \/ \E point \in SweepPoints, normal \in UnitNormals : Sample(point, normal)
    \/ Flush
    \/ RequestFrame

Spec == Init /\ [][Next]_vars

\* a Plotter on its own, driven by a direct caller; no frame is ever requested
InitPlotter ==
    /\ \E s \in Sizes, d \in Distances : NewPlotter(s, d, 2)
    /\ NewDonut
    /\ pc = "none"
    /\ requested = FALSE

NextPlotter ==
    \/ \E point \in CallPoints, color \in CallColors : PlotCall(point, color)
    \/ RenderCall

PlotterSpec == InitPlotter /\ [][NextPlotter]_vars

----------------------------------------------------------------------------
(* Properties *)

MaxPalette == 10    \* largest palette size of the shading check

\* the candidates of the frame that reached the pixel (x, y)
PixelCands(x, y) == {cd \in cands : cd.x = x /\ cd.y = y}

\* the step is a call of Plotter.plot
IsPlotStep == nplots' = nplots + 1

\* the pixel coordinate round(distance * c / z) lies outside
\* [-cfgSize/2, cfgSize/2], cfgSize = size - 1 the configured size
PixelOutside(c, z) ==
    IF z = 0 THEN distance * c # 0
    ELSE LET v == RoundDiv(distance * c, z)
         IN  2 * v < -(size - 1) \/ 2 * v > size - 1

\* C1: after any sequence of plot calls of one frame, the depth stored for a
\* pixel is the minimum z of the candidates that reached it, and the winner
\* recorded for it is that pixel with the color of a candidate of that minimum
\* depth; so of two candidates z1 < z2 at one pixel, in either order, z1 and
\* its color are stored.
C1_NearestWins ==
    \A cd \in cands :
        LET key == Index(cd.x, cd.y)
            same == PixelCands(cd.x, cd.y)
            nearest == {e \in same : \A f \in same : e.z <= f.z}
        IN  /\ key \in DOMAIN zbuf
            /\ key \in DOMAIN points
            /\ \A e \in nearest : zbuf[key] = e.z
            /\ points[key].x = cd.x
            /\ points[key].y = cd.y
            /\ \E e \in nearest : points[key].c = e.c

\* C1 witness: two candidates of different colors reached one pixel, and the
\* nearer one was submitted last and was written.
C1_Witness ==
    /\ last.op = "plot"
    /\ last.stage = "write"
    /\ \E e \in cands, f \in cands :
        /\ e.x = f.x /\ e.y = f.y
        /\ e.x.k = "num" /\ e.y.k = "num"
        /\ e.z < f.z
        /\ e.c # f.c
        /\ last.point.z = e.z
        /\ last.color = e.c

\* C2: plot is idempotent: repeating the latest plot call returns without
\* writing and leaves zbuf and points as they are.
C2_PlotIdempotent ==
    last.op = "plot" =>
        LET again == Plot(zbuf, points, last.point, last.color)
        IN  /\ again.stage # "write"
            /\ again.zbuf = zbuf
            /\ again.points = points

\* C2 witness: the latest plot call wrote its sample into the buffers.
C2_Witness == last.op = "plot" /\ last.stage = "write" /\ Cardinality(DOMAIN zbuf) = 2

\* C3: a plot call whose projected pixel x or y lies outside
\* [-size/2, size/2] leaves zbuf and points unchanged.
C3_OutOfBoundsNoEffect ==
    [][(/\ IsPlotStep
        /\ \/ PixelOutside(last'.point.x, last'.point.z)
           \/ PixelOutside(last'.point.y, last'.point.z))
       => UNCHANGED <<zbuf, points>>]_vars

\* C3 witness: a sample of valid color whose pixel x is exactly one unit above
\* size/2 was plotted while the buffer held a winner.
C3_Witness ==
    /\ last.op = "plot"
    /\ ~ColorRejected(last.color)
    /\ last.point.z > 0
    /\ 2 * RoundDiv(distance * last.point.x, last.point.z) = (size - 1) + 2
    /\ ~PixelOutside(last.point.y, last.point.z)
    /\ zbuf # Empty

\* C4: a plot call whose color index is outside [0, paletteSize - 1] leaves
\* zbuf and points unchanged.
C4_InvalidColorNoEffect ==
    [][(IsPlotStep /\ (last'.color < 0 \/ last'.color > ncolors - 1))
       => UNCHANGED <<zbuf, points>>]_vars

\* C4 witness: color paletteSize was plotted for a point that a valid color
\* would have written: in bounds and nearer than the stored depth.
C4_Witness ==
    /\ last.op = "plot"
    /\ last.color = ncolors
    /\ zbuf # Empty
    /\ Index(Project(last.point.x, last.point.z),
             Project(last.point.y, last.point.z)) \in DOMAIN zbuf
    /\ Plot(zbuf, points, last.point, 0).stage = "write"

\* C5: every tick with a recorded previous timestamp (0 included) advances a
\* by 0.07 * dt and b by 0.03 * dt, dt = (ts - lastTs) * 60 / 1000.
C5_AnglesAdvance ==
    [][(ticks' = ticks + 1 /\ lastTs # Null)
       => /\ a' = a + (7 * (lastTs' - lastTs) * 60) \div 10
          /\ b' = b + (3 * (lastTs' - lastTs) * 60) \div 10]_vars

\* C6: render issues exactly one fillRect per winner recorded since the last
\* reset, in the winner's color and at its position, and nothing else, and
\* leaves zbuf and points empty.
C6_FlushExactlyWinners ==
    last.op = "render" =>
        /\ \A key \in DOMAIN flushed :
            Cardinality({i \in 1 .. Len(cmds) :
                cmds[i] = FillRect(flushed[key].c, flushed[key])}) = 1
        /\ Len(cmds) = Cardinality(DOMAIN flushed)
        /\ zbuf = Empty
        /\ points = Empty

\* the configured size is even: the grid has an odd number of cells per row
EvenSize == (size - 1) % 2 = 0

\* C6 amended: when the configured size is even, the render that ends
\* Donut.draw issues exactly one fillRect per winner recorded since the last
\* reset, in the winner's color and at its position, and nothing else, and
\* leaves zbuf and points empty.
C6_EvenSizeFlushExactlyWinners == EvenSize => C6_FlushExactlyWinners

\* C6 witness: with an even size, a frame with two winners of different colors
\* was flushed.
C6_Witness ==
    /\ EvenSize
    /\ last.op = "render"
    /\ Len(cmds) = 2
    /\ cmds[1].fillStyle # cmds[2].fillStyle
    /\ Cardinality(DOMAIN flushed) = 2

\* C7: a tick is processed as: angles advanced and timestamp stored, then one
\* clearRect, the sweep, one render, and only then the request of the next
\* tick; no tick is pending while one is processed.
C7_OneDrawPassPerTick ==
    /\ requested => pc = "waiting"
    /\ (requested /\ ticks > 0) => (clears = 1 /\ renders = 1 /\ last.op = "render")
    /\ pc = "draw" => (clears = 0 /\ renders = 0 /\ lastTs # Null)
    /\ pc \in {"sweep", "flush"} => (clears = 1 /\ renders = 0)
    /\ pc = "request" => (clears = 1 /\ renders = 1)
    /\ pc = "waiting" => requested

\* C7 witness: the second tick has been processed and the third is requested.
C7_Witness == requested /\ ticks = 2 /\ renders = 1 /\ Len(cmds) > 0

\* C8: a frame issues at most (size+1)^2 draw commands, no two of them at the
\* same pixel.
C8_OneCommandPerPixel ==
    /\ Len(cmds) <= size * size
    /\ \A i \in 1 .. Len(cmds), j \in 1 .. Len(cmds) :
        (cmds[i].x = cmds[j].x /\ cmds[i].y = cmds[j].y) => i = j

\* C8 witness: two samples of different colors reached the same pixel in the
\* frame that was flushed, and one command was issued.
C8_Witness ==
    /\ last.op = "render"
    /\ Len(cmds) = 1
    /\ \E e \in flushedCands, f \in flushedCands :
        e.x = f.x /\ e.y = f.y /\ e.c # f.c

\* C9: the shading index of every unit normal lies in [0, paletteSize - 1]
\* for every palette size from 2 on (a fact of LevelOf alone, evaluated once,
\* before the first tick), the index of every sample of the sweep lies in the
\* palette in use, and no sample of the sweep is dropped by the color check of
\* plot.
C9_LevelInPalette ==
    /\ ticks = 0 =>
        \A n \in UnitNormals, N \in 2 .. MaxPalette : LevelOf(n, N - 1) \in 0 .. N - 1
    /\ last.by = "sweep" => (last.color \in 0 .. ncolors - 1 /\ last.stage # "color")

\* C9 witness: the sweep plotted a sample of the brightest index.
C9_Witness == last.by = "sweep" /\ last.color = ncolors - 1 /\ last.stage = "write"

\* C10: for every allowed size, the index of a recorded winner is an integer
\* in [0, (size+1)^2), distinct pixels have distinct indices, and the flush
\* visits every winner.
C10_IndexIsArrayIndex ==
    /\ \A key \in DOMAIN points :
        /\ key # NaNKey /\ key % 2 = 0
        /\ key \div 2 \in 0 .. size * size - 1
        /\ ArrayIndex(key)
    /\ \A e \in cands, f \in cands :
        Index(e.x, e.y) = Index(f.x, f.y) => (e.x = f.x /\ e.y = f.y)

\* C10 amended: for every even configured size, the index of every winner
\* recorded at a finite pixel is an integer in [0, (size+1)^2), distinct
\* pixels have distinct indices, and the flush visits every such winner.
C10_EvenSizeIndexIsArrayIndex ==
    EvenSize =>
        /\ \A key \in DOMAIN points :
            (points[key].x.k = "num" /\ points[key].y.k = "num") =>
                /\ key # NaNKey /\ key % 2 = 0
                /\ key \div 2 \in 0 .. size * size - 1
                /\ ArrayIndex(key)
        /\ \A e \in cands, f \in cands :
            (e.x.k = "num" /\ e.y.k = "num" /\ f.x.k = "num" /\ f.y.k = "num") =>
                (Index(e.x, e.y) = Index(f.x, f.y) => (e.x = f.x /\ e.y = f.y))

\* C10 witness: with an even size, winners are recorded at two pixels of
\* different rows.
C10_Witness ==
    /\ EvenSize
    /\ \E k1 \in DOMAIN points, k2 \in DOMAIN points :
        /\ points[k1].x.k = "num" /\ points[k1].y.k = "num"
        /\ points[k2].x.k = "num" /\ points[k2].y.k = "num"
        /\ points[k1].y.v # points[k2].y.v
        /\ points[k1].x.v # points[k2].x.v

====
